---- MODULE Spec2Model ----
(***************************************************************************)
(* A model of icvm256.py: modular field arithmetic (FiniteField), the      *)
(* short-Weierstrass group law (EllipticCurve.add_points,                  *)
(* scalar_multiply) and the ECDH / ECDSA operations built on them.         *)
(*                                                                         *)
(* The classes are generic in their parameters (a, b, p, n, G).  The       *)
(* 256-bit instance of create_icvm256_curve is outside the range of the    *)
(* model checker's integers, so the classes are instantiated with small    *)
(* parameter sets: the curve y^2 = x^3 + 2x + 2 over F_17 with generator   *)
(* (5,1) of order 19, and a curve with a = -3 (as in the 256-bit           *)
(* instance) over F_13 whose generator has prime order 7 < p and whose     *)
(* group also holds a point of order two.                                  *)
(*                                                                         *)
(* Python values are modelled as follows.  A point is a record             *)
(* [kind, x, y]; Python's None (the point at infinity) is the record       *)
(* None.  A call's outcome is a record [exc, val]: exc = "none" for a      *)
(* normal return of val, otherwise the name of the raised exception.       *)
(* Python's // and % (floor division, non-negative remainder for a         *)
(* positive modulus) are \div and % of Integers.                           *)
(***************************************************************************)
EXTENDS Integers, Sequences, FiniteSets, TLC

(***************************************************************************)
(* Bounds of the model.                                                    *)
(***************************************************************************)
\* Messages are identified with the integer value of their SHA-256 digest,
\* drawn from 0..MaxDigest (above both group orders, so the reduction mod n
\* in hash_message acts).
MaxDigest == 20
\* Scalars handed to scalar_multiply: 0..MaxScalar (above twice the order).
MaxScalar == 40
\* Arguments handed to FiniteField.inverse: -MaxInvArg..MaxInvArg.
MaxInvArg == 40
\* Signature components handed to verify_signature lie within SigSlack of
\* the two ends of the valid range [1, n-1].
SigSlack == 1

(***************************************************************************)
(* Values.                                                                 *)
(***************************************************************************)
None == [kind |-> "None", x |-> 0, y |-> 0]
Pt(x, y) == [kind |-> "pt", x |-> x, y |-> y]

Ok(v) == [exc |-> "none", val |-> v]
RaiseInt(e) == [exc |-> e, val |-> 0]
RaisePt(e) == [exc |-> e, val |-> None]
RaiseBool(e) == [exc |-> e, val |-> FALSE]
RaiseSig(e) == [exc |-> e, val |-> <<0, 0>>]

(***************************************************************************)
(* class FiniteField                                                       *)
(***************************************************************************)
FiniteField(p) == [p |-> p]

add(F, a, b) == (a + b) % F.p

subtract(F, a, b) == (a - b) % F.p

multiply(F, a, b) == (a * b) % F.p

\* The while loop of inverse: the extended Euclidean algorithm.
RECURSIVE inverse_loop(_, _, _, _, _, _)
inverse_loop(old_r, r, old_s, s, old_t, t) ==
    IF r # 0
    THEN LET quotient == old_r \div r
         IN  inverse_loop(r, old_r - quotient * r,
                          s, old_s - quotient * s,
                          t, old_t - quotient * t)
    ELSE old_s

\* Faulty variant: the remainder pair initialised the other way round.
inverse_swapped(F, a) ==
    IF a = 0
    THEN RaiseInt("ZeroDivisionError")
    ELSE Ok(inverse_loop(F.p, a, 1, 0, 0, 1) % F.p)

inverse(F, a) ==
    IF a = 0
    THEN RaiseInt("ZeroDivisionError")
    ELSE Ok(inverse_loop(a, F.p, 1, 0, 0, 1) % F.p)

divide(F, a, b) ==
    LET inv == inverse(F, b)
    IN  IF inv.exc # "none" THEN inv ELSE Ok(multiply(F, a, inv.val))

RECURSIVE pow_loop(_, _, _, _)
pow_loop(F, result, a, n) ==
    IF n > 0
    THEN pow_loop(F,
                  IF n % 2 = 1 THEN multiply(F, result, a) ELSE result,
                  multiply(F, a, a),
                  n \div 2)
    ELSE result

pow(F, a, n) == pow_loop(F, 1, a % F.p, n)

(***************************************************************************)
(* class EllipticCurve                                                     *)
(***************************************************************************)
\* The fields __init__ sets.
EllipticCurve(a, b, p, n, G_x, G_y) ==
    [a |-> a, b |-> b, field |-> FiniteField(p), p |-> p, n |-> n,
     G |-> Pt(G_x, G_y)]

is_on_curve(c, point) ==
    IF point = None
    THEN TRUE
    ELSE LET x == point.x
             y == point.y
             left == pow(c.field, y, 2)
             right == add(c.field,
                          add(c.field, pow(c.field, x, 3),
                              multiply(c.field, c.a, x)),
                          c.b)
         IN  left = right

\* Lines 104-113 of add_points: the third point from the slope.
third_point(c, slope, x1, y1, x2) ==
    LET x3 == subtract(c.field,
                       subtract(c.field, pow(c.field, slope, 2), x1), x2)
        y3 == subtract(c.field,
                       multiply(c.field, slope, subtract(c.field, x1, x3)),
                       y1)
    IN  Pt(x3, y3)

\* Lines 91-102 of add_points: the slope, or the exception divide raises.
slope_of(c, x1, y1, x2, y2) ==
    IF x1 = x2 /\ y1 = y2
    THEN divide(c.field,
                add(c.field, multiply(c.field, 3, pow(c.field, x1, 2)), c.a),
                multiply(c.field, 2, y1))
    ELSE divide(c.field,
                subtract(c.field, y2, y1),
                subtract(c.field, x2, x1))

\* Faulty variant: the inverse rule (lines 88-89) left out.
add_points_no_inverse_rule(c, P1, P2) ==
    IF P1 = None THEN Ok(P2)
    ELSE IF P2 = None THEN Ok(P1)
    ELSE LET slope == slope_of(c, P1.x, P1.y, P2.x, P2.y)
         IN  IF slope.exc # "none"
             THEN RaisePt(slope.exc)
             ELSE Ok(third_point(c, slope.val, P1.x, P1.y, P2.x))

\* Faulty variant: y3 computed as slope * (x3 - x1) - y1.
add_points_y3_slip(c, P1, P2) ==
    IF P1 = None THEN Ok(P2)
    ELSE IF P2 = None THEN Ok(P1)
    ELSE IF P1.x = P2.x /\ P1.y = subtract(c.field, 0, P2.y) THEN Ok(None)
    ELSE LET slope == slope_of(c, P1.x, P1.y, P2.x, P2.y)
             T == third_point(c, slope.val, P1.x, P1.y, P2.x)
         IN  IF slope.exc # "none"
             THEN RaisePt(slope.exc)
             ELSE Ok(Pt(T.x,
                        subtract(c.field,
                                 multiply(c.field, slope.val,
                                          subtract(c.field, T.x, P1.x)),
                                 P1.y)))

add_points(c, P1, P2) ==
    IF P1 = None THEN Ok(P2)
    ELSE IF P2 = None THEN Ok(P1)
    ELSE LET x1 == P1.x
             y1 == P1.y
             x2 == P2.x
             y2 == P2.y
         IN  IF x1 = x2 /\ y1 = subtract(c.field, 0, y2)
             THEN Ok(None)
             ELSE LET slope == slope_of(c, x1, y1, x2, y2)
                  IN  IF slope.exc # "none"
                      THEN RaisePt(slope.exc)
                      ELSE Ok(third_point(c, slope.val, x1, y1, x2))

\* The while loop of scalar_multiply; an exception of add_points propagates.
RECURSIVE scalar_multiply_loop(_, _, _, _)
scalar_multiply_loop(c, result, addend, scalar) ==
    IF scalar # 0
    THEN LET added == IF scalar % 2 = 1
                      THEN add_points(c, result, addend)
                      ELSE Ok(result)
             doubled == add_points(c, addend, addend)
         IN  IF added.exc # "none" THEN added
             ELSE IF doubled.exc # "none" THEN doubled
             ELSE scalar_multiply_loop(c, added.val, doubled.val,
                                       scalar \div 2)
    ELSE Ok(result)

\* Faulty variant of the loop: the addend is doubled before it is added.
RECURSIVE scalar_multiply_loop_early_double(_, _, _, _)
scalar_multiply_loop_early_double(c, result, addend, scalar) ==
    IF scalar # 0
    THEN LET doubled == add_points(c, addend, addend)
             added == IF scalar % 2 = 1
                      THEN add_points(c, result, doubled.val)
                      ELSE Ok(result)
         IN  IF doubled.exc # "none" THEN doubled
             ELSE IF added.exc # "none" THEN added
             ELSE scalar_multiply_loop_early_double(c, added.val, doubled.val,
                                                    scalar \div 2)
    ELSE Ok(result)

scalar_multiply_early_double(c, P, scalar) ==
    IF scalar % c.n = 0 \/ P = None
    THEN Ok(None)
    ELSE scalar_multiply_loop_early_double(c, None, P, scalar % c.n)

scalar_multiply(c, P, scalar) ==
    IF scalar % c.n = 0 \/ P = None
    THEN Ok(None)
    ELSE scalar_multiply_loop(c, None, P, scalar % c.n)

\* Faulty variant: the generator used in place of the peer's public key.
ecdh_shared_secret_own_key(c, private_key, public_key) ==
    LET shared_point == scalar_multiply(c, c.G, private_key)
    IN  IF shared_point.exc # "none" THEN RaiseInt(shared_point.exc)
        ELSE IF shared_point.val = None THEN RaiseInt("ValueError")
        ELSE Ok(shared_point.val.x)

ecdh_shared_secret(c, private_key, public_key) ==
    LET shared_point == scalar_multiply(c, public_key, private_key)
    IN  IF shared_point.exc # "none" THEN RaiseInt(shared_point.exc)
        ELSE IF shared_point.val = None THEN RaiseInt("ValueError")
        ELSE Ok(shared_point.val.x)

\* A message is identified with int.from_bytes(sha256(message).digest()).
hash_message(c, message) == message % c.n

\* One pass of the body of sign_message's while loop (lines 160-167) with
\* the nonce k that random.randint returned: the pair <<r, s>>.
sign_message_iteration(c, private_key, z, k) ==
    LET R == scalar_multiply(c, c.G, k)
    IN  IF R.exc # "none" THEN RaiseSig(R.exc)
        ELSE IF R.val = None THEN RaiseSig("TypeError")
        ELSE LET r == R.val.x % c.n
                 k_inv == inverse(c.field, k)
             IN  IF k_inv.exc # "none" THEN RaiseSig(k_inv.exc)
                 ELSE Ok(<<r,
                           multiply(c.field, k_inv.val,
                                    add(c.field, z,
                                        multiply(c.field, r, private_key)))
                           % c.n>>)

\* Lines 178-191 of verify_signature: what follows the range check.
verify_signature_body(c, public_key, message, r, s) ==
    LET z == hash_message(c, message)
        s_inv == inverse(c.field, s)
    IN  IF s_inv.exc # "none" THEN RaiseBool(s_inv.exc)
        ELSE LET u1 == multiply(c.field, z, s_inv.val) % c.n
                 u2 == multiply(c.field, r, s_inv.val) % c.n
                 P1 == scalar_multiply(c, c.G, u1)
                 P2 == scalar_multiply(c, public_key, u2)
                 P == add_points(c, P1.val, P2.val)
             IN  IF P1.exc # "none" THEN RaiseBool(P1.exc)
                 ELSE IF P2.exc # "none" THEN RaiseBool(P2.exc)
                 ELSE IF P.exc # "none" THEN RaiseBool(P.exc)
                 ELSE IF P.val = None THEN Ok(FALSE)
                 ELSE Ok(r = P.val.x % c.n)

\* Faulty variant: the range check applied to r alone.
verify_signature_r_only(c, public_key, message, signature) ==
    LET r == signature[1]
        s == signature[2]
    IN  IF ~(1 <= r /\ r < c.n)
        THEN Ok(FALSE)
        ELSE verify_signature_body(c, public_key, message, r, s)

verify_signature(c, public_key, message, signature) ==
    LET r == signature[1]
        s == signature[2]
    IN  IF ~(1 <= r /\ r < c.n /\ 1 <= s /\ s < c.n)
        THEN Ok(FALSE)
        ELSE verify_signature_body(c, public_key, message, r, s)

(***************************************************************************)
(* Parameter sets handed to the constructor.  The third does not pass the  *)
(* constructor's is_on_curve(G) check and yields no curve object.          *)
(***************************************************************************)
CurveParameters ==
    { EllipticCurve(2, 2, 17, 19, 5, 1),
      EllipticCurve(0 - 3, 6, 13, 7, 5, 5),
      EllipticCurve(2, 3, 17, 19, 5, 1) }

(***************************************************************************)
(* Input domains.                                                          *)
(***************************************************************************)
\* The points with reduced coordinates that satisfy the curve equation,
\* and the point at infinity.
CurvePoints(c) ==
    {None} \cup
    { P \in { Pt(x, y) : x \in 0..(c.p - 1), y \in 0..(c.p - 1) } :
        is_on_curve(c, P) }

\* P added to itself k times with add_points, starting from infinity.
RECURSIVE RepeatedAdd(_, _, _)
RepeatedAdd(c, P, k) ==
    IF k = 0 THEN None ELSE add_points(c, RepeatedAdd(c, P, k - 1), P).val

\* The subgroup generated by G.
Subgroup(c) == { RepeatedAdd(c, c.G, i) : i \in 0..(c.n - 1) }

Messages == 0..MaxDigest

SigValues(c) ==
    ((0 - SigSlack)..SigSlack) \cup ((c.n - SigSlack)..(c.n + SigSlack))

(***************************************************************************)
(* State.                                                                  *)
(***************************************************************************)
VARIABLES
    curve,      \* the constructed EllipticCurve object
    call,       \* the last call of a pure operation: its name, inputs, outcome
    pc,         \* where the key-generation / sign / verify session stands
    priv,       \* generate_keypair's private_key
    pub,        \* generate_keypair's public_key
    msg,        \* the message being signed
    z,          \* sign_message's z
    k,          \* the nonce of the last pass of sign_message's loop
    r,          \* sign_message's r
    s,          \* sign_message's s
    verdict     \* the outcome of verify_signature on the returned signature

vars == <<curve, call, pc, priv, pub, msg, z, k, r, s, verdict>>

NoCall == [op |-> "none"]
NoVerdict == [exc |-> "none", val |-> FALSE]

NoSession ==
    /\ pc' = "idle"
    /\ priv' = 0
    /\ pub' = None
    /\ msg' = 0
    /\ z' = 0
    /\ k' = 0
    /\ r' = 0
    /\ s' = 0
    /\ verdict' = NoVerdict

\* No operation has been called on the curve object yet.  The operations
\* are pure functions of their arguments and the immutable curve, so each
\* behaviour follows one call, or one session, from the constructed object.
Fresh == call = NoCall /\ pc = "idle"

\* EllipticCurve.__init__ raises ValueError unless G is on the curve.
Init ==
    /\ curve \in { c \in CurveParameters : is_on_curve(c, c.G) }
    /\ call = NoCall
    /\ pc = "idle"
    /\ priv = 0
    /\ pub = None
    /\ msg = 0
    /\ z = 0
    /\ k = 0
    /\ r = 0
    /\ s = 0
    /\ verdict = NoVerdict

(***************************************************************************)
(* Calls of the pure operations.                                           *)
(***************************************************************************)
Inverse ==
    /\ Fresh
    /\ \E a \in (0 - MaxInvArg)..MaxInvArg :
        /\ call' = [op |-> "inverse", a |-> a, ret |-> inverse(curve.field, a)]
        /\ NoSession
        /\ UNCHANGED curve

AddPoints ==
    /\ Fresh
    /\ \E P1 \in CurvePoints(curve), P2 \in CurvePoints(curve) :
        /\ call' = [op |-> "add_points", P1 |-> P1, P2 |-> P2,
                    ret |-> add_points(curve, P1, P2)]
        /\ NoSession
        /\ UNCHANGED curve

ScalarMultiply ==
    /\ Fresh
    /\ \E P \in Subgroup(curve), scalar \in 0..MaxScalar :
        /\ call' = [op |-> "scalar_multiply", P |-> P, scalar |-> scalar,
                    ret |-> scalar_multiply(curve, P, scalar)]
        /\ NoSession
        /\ UNCHANGED curve

\* Two parties generate key pairs and each derives the shared secret from
\* its own private key and the other's public key.
Ecdh ==
    /\ Fresh
    /\ \E d1 \in 1..(curve.n - 1), d2 \in 1..(curve.n - 1) :
        LET Q1 == scalar_multiply(curve, curve.G, d1).val
            Q2 == scalar_multiply(curve, curve.G, d2).val
        IN  /\ call' = [op |-> "ecdh_shared_secret", d1 |-> d1, d2 |-> d2,
                        Q1 |-> Q1, Q2 |-> Q2,
                        ret12 |-> ecdh_shared_secret(curve, d1, Q2),
                        ret21 |-> ecdh_shared_secret(curve, d2, Q1)]
            /\ NoSession
            /\ UNCHANGED curve

VerifySignature ==
    /\ Fresh
    /\ \E Q \in Subgroup(curve), m \in Messages,
       sr \in SigValues(curve), ss \in SigValues(curve) :
        /\ call' = [op |-> "verify_signature", public_key |-> Q,
                    message |-> m, r |-> sr, s |-> ss,
                    ret |-> verify_signature(curve, Q, m, <<sr, ss>>)]
        /\ NoSession
        /\ UNCHANGED curve

(***************************************************************************)
(* The session: generate_keypair, sign_message, verify_signature.          *)
(***************************************************************************)
GenerateKeypair ==
    /\ Fresh
    /\ \E private_key \in 1..(curve.n - 1) :
        LET public_key == scalar_multiply(curve, curve.G, private_key)
        IN  /\ pc' = IF public_key.exc = "none" THEN "keyed" ELSE "raised"
            /\ priv' = private_key
            /\ pub' = public_key.val
            /\ msg' = 0
            /\ z' = 0
            /\ k' = 0
            /\ r' = 0
            /\ s' = 0
            /\ verdict' = NoVerdict
            /\ call' = NoCall
            /\ UNCHANGED curve

\* sign_message up to the loop: z = hash_message(message); r, s = 0, 0.
SignMessageEnter ==
    /\ pc = "keyed"
    /\ \E message \in Messages :
        /\ msg' = message
        /\ z' = hash_message(curve, message)
    /\ k' = 0
    /\ r' = 0
    /\ s' = 0
    /\ pc' = "sign_loop"
    /\ UNCHANGED <<curve, call, priv, pub, verdict>>

\* One pass of the loop: draw k, compute r and s; the loop is left, and
\* (r, s) returned, when neither is 0.
SignMessageLoop ==
    /\ pc = "sign_loop"
    /\ r = 0 \/ s = 0
    /\ \E nonce \in 1..(curve.n - 1) :
        LET it == sign_message_iteration(curve, priv, z, nonce)
        IN  /\ k' = nonce
            /\ r' = it.val[1]
            /\ s' = it.val[2]
            /\ pc' = IF it.exc # "none" THEN "raised"
                     ELSE IF it.val[1] = 0 \/ it.val[2] = 0 THEN "sign_loop"
                     ELSE "signed"
    /\ UNCHANGED <<curve, call, priv, pub, msg, z, verdict>>

\* The signature sign_message returned is verified under the public key.
VerifyReturned ==
    /\ pc = "signed"
    /\ verdict' = verify_signature(curve, pub, msg, <<r, s>>)
    /\ pc' = "verified"
    /\ UNCHANGED <<curve, call, priv, pub, msg, z, k, r, s>>

Next ==
    \/ Inverse
    \/ AddPoints
    \/ ScalarMultiply
    \/ Ecdh
    \/ VerifySignature
    \/ GenerateKeypair
    \/ SignMessageEnter
    \/ SignMessageLoop
    \/ VerifyReturned

Spec == Init /\ [][Next]_vars

(***************************************************************************)
(* Properties.                                                             *)
(***************************************************************************)
Signed == pc \in {"signed", "verified"}

\* C1: ECDSA round trip: the signature (r, s) that sign_message(d, msg)
\* returns, for any private key d in [1, n-1], message and accepted nonce,
\* is accepted by verify_signature under the public key Q = d*G.
C1_RoundTrip == pc = "verified" => verdict = Ok(TRUE)

\* C2: ECDH symmetry: for key pairs (d1, Q1) and (d2, Q2),
\* ecdh_shared_secret(d1, Q2) and ecdh_shared_secret(d2, Q1) either both
\* raise the invalid-shared-point error or both return the same value.
C2_EcdhSymmetry ==
    call.op = "ecdh_shared_secret" =>
        \/ call.ret12.exc = "ValueError" /\ call.ret21.exc = "ValueError"
        \/ /\ call.ret12.exc = "none"
           /\ call.ret21.exc = "none"
           /\ call.ret12.val = call.ret21.val

C2_Witness ==
    /\ call.op = "ecdh_shared_secret"
    /\ call.d1 # call.d2
    /\ call.Q1 # call.Q2
    /\ call.ret12.exc = "none"
    /\ call.ret12.val = call.ret21.val

\* C3: for P in the subgroup generated by G and a scalar k >= 0,
\* scalar_multiply(P, k) is P added to itself k times with add_points,
\* starting from the point at infinity; and scalar_multiply(G, n) is the
\* point at infinity.
C3_ScalarMultiplyIsRepeatedAdd ==
    call.op = "scalar_multiply" =>
        /\ call.ret = Ok(RepeatedAdd(curve, call.P, call.scalar))
        /\ (call.P = curve.G /\ call.scalar = curve.n) => call.ret = Ok(None)

C3_Witness ==
    /\ call.op = "scalar_multiply"
    /\ call.P \notin {None, curve.G}
    /\ call.scalar > curve.n
    /\ call.ret.exc = "none"
    /\ call.ret.val \notin {None, call.P}
    /\ call.ret.val = RepeatedAdd(curve, call.P, call.scalar)

\* C4: for a in [1, p), inverse(a) returns a value in [0, p) whose product
\* with a, by multiply, is 1.
C4_InverseIsInverse ==
    (call.op = "inverse" /\ 1 <= call.a /\ call.a < curve.p) =>
        /\ call.ret.exc = "none"
        /\ call.ret.val \in 0..(curve.p - 1)
        /\ multiply(curve.field, call.a, call.ret.val) = 1

C4_Witness ==
    /\ call.op = "inverse"
    /\ 1 < call.a /\ call.a < curve.p
    /\ call.ret.exc = "none"
    /\ call.ret.val # call.a
    /\ multiply(curve.field, call.a, call.ret.val) = 1

\* C5: inverse(a) raises ZeroDivisionError for every integer a congruent
\* to 0 mod p, nonzero multiples of p included, and returns no value.
C5_InverseOfZeroClassRaises ==
    (call.op = "inverse" /\ call.a % curve.p = 0) =>
        call.ret.exc = "ZeroDivisionError"

\* C6: verify_signature returns False, and raises nothing, whenever r or s
\* lies outside [1, n-1].
C6_OutOfRangeRejected ==
    (/\ call.op = "verify_signature"
     /\ \/ call.r \notin 1..(curve.n - 1)
        \/ call.s \notin 1..(curve.n - 1)) =>
        call.ret = Ok(FALSE)

C6_Witness ==
    /\ call.op = "verify_signature"
    /\ call.r \in 1..(curve.n - 1)
    /\ call.s = curve.n
    /\ call.public_key # None
    /\ call.ret = Ok(FALSE)

\* C7: the s that sign_message returns is k^-1 * (z + r*d) mod n with k^-1
\* the inverse of k modulo the group order n; n being prime, that is: s is
\* reduced mod n and k*s is congruent to z + r*d mod n.
C7_SIsInverseModOrder ==
    Signed =>
        /\ s \in 0..(curve.n - 1)
        /\ (k * s) % curve.n = (z + r * priv) % curve.n

\* C8: add_points never raises ZeroDivisionError on operands that are the
\* point at infinity or on-curve points with reduced coordinates.
C8_AddPointsNeverDividesByZero ==
    call.op = "add_points" => call.ret.exc # "ZeroDivisionError"

C8_Witness ==
    /\ call.op = "add_points"
    /\ call.P1 # None
    /\ call.P1 = call.P2
    /\ multiply(curve.field, 2, call.P1.y) = 0
    /\ call.ret = Ok(None)

\* C9: closure: on such operands add_points returns the point at infinity
\* or a point with both coordinates in [0, p) that satisfies is_on_curve,
\* and so does scalar_multiply on the points generated from G.
C9_Closure ==
    call.op \in {"add_points", "scalar_multiply"} =>
        /\ call.ret.exc = "none"
        /\ \/ call.ret.val = None
           \/ /\ call.ret.val.kind = "pt"
              /\ call.ret.val.x \in 0..(curve.p - 1)
              /\ call.ret.val.y \in 0..(curve.p - 1)
              /\ is_on_curve(curve, call.ret.val)

C9_Witness ==
    /\ call.op = "add_points"
    /\ call.P1 # None
    /\ call.P2 # None
    /\ call.P1.x # call.P2.x
    /\ call.ret.exc = "none"
    /\ call.ret.val \notin {None, call.P1, call.P2}
    /\ is_on_curve(curve, call.ret.val)

\* C10: the nonce loop of sign_message can always be left: for every
\* private key and message representative some nonce in [1, n-1] gives
\* r # 0 and s # 0; and a pass is repeated only when r = 0 or s = 0.
C10_SignLoopCanTerminate ==
    pc = "sign_loop" =>
        /\ \E nonce \in 1..(curve.n - 1) :
              LET it == sign_message_iteration(curve, priv, z, nonce)
              IN  it.exc = "none" /\ it.val[1] # 0 /\ it.val[2] # 0
        /\ k # 0 => (r = 0 \/ s = 0)

====
